---- MODULE Spec2Model ----
(***************************************************************************)
(* Model of mqtt_base: the class-level EventQueue (event.py), the          *)
(* MQTTClient connection wrapper (mqtt.py), the scheduler                  *)
(* MQTTBaseApp._main_loop and the start() wrapper of MQTTBaseApp.main      *)
(* (mqtt_base.py).                                                         *)
(*                                                                         *)
(* Two threads run: the transport's network thread, which delivers the     *)
(* on_connect and on_disconnect callbacks, and the main thread, which runs *)
(* start(): setup, _main_loop, the except clauses and the finally block.   *)
(* Every access to the shared EventQueue state (event_queue, event_flag)   *)
(* is a step of its own, so a thread can be preempted between the append   *)
(* and the set of AppEvent.__init__, between is_set and clear of           *)
(* EventQueue.check, and between the test and the pop(0) of EventQueue.pop.*)
(*                                                                         *)
(* Spec is the program with no signal delivered to it; SpecSignals adds    *)
(* the delivery of SIGTERM and SIGINT to the main thread at any point      *)
(* after start() installed the SIGTERM handler; FairSpec is Spec with both *)
(* threads scheduled fairly.                                               *)
(***************************************************************************)
EXTENDS Integers, Sequences, FiniteSets, TLC

\* ---------------------------------------------------------------- bounds
\* on_connect callbacks the transport thread delivers
MaxConnects == 2
\* application events handle_event constructs (re-entrant enqueue)
MaxAppEvents == 1
\* waits that elapse without the wake signal
MaxTimeouts == 1
\* signals (SIGTERM, SIGINT) delivered to the process
MaxSignals == 1

\* arguments on_connect is called with: the flags dictionary, reduced to its
\* "session present" bit, and the CONNACK result code (0 accepted, 5 refused).
\* A refusing CONNACK never has a session present; an accepting one is taken
\* to resume a session, so that the two kinds of callback differ in both
ConnackArgs == { [flags |-> 1, rc |-> 0], [flags |-> 0, rc |-> 5] }

\* result codes on_disconnect is called with: 7, connection lost.  The
\* program never calls client.disconnect(), so the transport never reports a
\* requested disconnect (rc 0)
DisconnectCodes == {7}

\* outcomes of the transport's publish: a message info with rc 0 (accepted),
\* with rc 4 (MQTT_ERR_NO_CONN, rejected), or a raised exception
PublishOutcomes ==
    { [kind |-> "rc", rc |-> 0], [kind |-> "rc", rc |-> 4],
      [kind |-> "ValueError", rc |-> 0], [kind |-> "RuntimeError", rc |-> 0] }

\* the rc an application gives ExitApp when handle_event raises it
AppExitCodes == {3}

VARIABLES
    event_queue,      \* EventQueue.event_queue: pending events, oldest first
    event_flag,       \* EventQueue.event_flag: the wake signal
    connected,        \* MQTTClient.connected
    loop_started,     \* the transport's network thread runs (client.loop_start)
    tpc,              \* transport thread: position inside its callback
    targs,            \* transport thread: arguments of the running callback
    birth_msg,        \* MQTTClient.birth_msg is set (a birth topic is configured)
    pc,               \* main thread: position inside start() and _main_loop
    mqtt_connected,   \* _main_loop local
    sleep_interval,   \* _main_loop local
    event,            \* _main_loop local: value of the last pop / RefreshEvent()
    check_ret,        \* value returned by the last EventQueue.check
    exc,              \* exception that ended the try body of start(), "none"
                      \*   while it runs
    exc_rc,           \* the rc attribute of that exception when it is an ExitApp
    publish_call,     \* the MQTTClient.publish call in progress: the transport's
                      \*   outcome and what publish does with it
    client,           \* MQTTClient.client, the transport client object, is set
    handler_installed,\* start() has installed sigterm_handler
    interrupted,      \* the signal that ended the try body of start(), "none"
                      \*   if none did
    rc,               \* start() local
    propagating,      \* exception raised inside an except clause or the finally
                      \*   block of start(), "none" if there is none
    exit_code,        \* exit status of the process, -1 while it runs
    callbacks_set,    \* client.on_connect and client.on_disconnect are assigned
    transport_connects, \* calls of the transport's client.connect
    app_shutdowns,    \* calls of app.shutdown()
    mqtt_shutdowns,   \* calls of MQTTClient.shutdown()
    loop_stops,       \* calls of the transport's client.loop_stop()
    enq,              \* history: events in the order they were appended
    popped,           \* history: values returned by the non-None pops, in order
    handled,          \* history: handle_event calls, each with the number of
                      \*   _publish_mqtt_discovery calls made before it
    discovery,        \* history: _publish_mqtt_discovery calls
    signalled,        \* history: event_flag.set() was called after the last
                      \*   check that returned True
    iter,             \* history: the wait, check and pop calls, the
                      \*   RefreshEvents constructed and the handle_event
                      \*   calls of the current iteration
    draining,         \* history: a check returned True and the drain that
                      \*   follows it has not ended with a pop returning None
    iterated,         \* history: an iteration of the while loop has completed
    waited,           \* history: for each pending event, the number of checks
                      \*   that returned True since it was appended
    nconnects,        \* on_connect callbacks delivered so far
    births,           \* history: birth publishes on_connect has issued
    napp,             \* application events constructed so far
    ntimeouts,        \* waits elapsed without signal so far
    nsignals          \* signals delivered so far

queue_vars == <<event_queue, event_flag>>
transport_vars == <<connected, loop_started, tpc, targs, nconnects, births>>
sched_vars == <<pc, mqtt_connected, sleep_interval, event, check_ret, exc>>
app_vars == <<publish_call, napp>>
hist_vars ==
    <<enq, popped, handled, discovery, signalled, iter, ntimeouts, draining,
      iterated, waited>>
\* what start() and MQTTClient.connect/shutdown own; no step of the while loop
\* and no callback changes it
wrap_vars ==
    <<birth_msg, client, exc_rc, handler_installed, interrupted, rc,
      propagating, exit_code, callbacks_set, transport_connects, app_shutdowns, mqtt_shutdowns,
      loop_stops, nsignals>>
vars ==
    <<queue_vars, transport_vars, sched_vars, app_vars, hist_vars, wrap_vars>>

\* ---------------------------------------------------------------- events
None == [type |-> "None"]
NoArgs == [cb |-> "none", flags |-> 0, rc |-> 0]
NoPublish ==
    [outcome |-> [kind |-> "none", rc |-> 0], ret |-> "none", exc |-> "none"]
NewIteration ==
    [waits |-> 0, checks |-> 0, pops |-> 0, refresh |-> 0, handled |-> 0]

\* MQTTConnectEvent.__init__ stores flags and rc, then runs AppEvent.__init__
MQTTConnectEvent(id, flags, rc_) ==
    [type |-> "MQTTConnectEvent", id |-> id, flags |-> flags, rc |-> rc_]

\* an application-defined AppEvent subclass
ApplicationEvent(id) == [type |-> "AppEvent", id |-> id]

IsConnect(e) == e.type = "MQTTConnectEvent"
IsSuccess(e) == IsConnect(e) /\ e.rc = 0
IsRefresh(e) == e.type = "RefreshEvent"

\* AppEvent.__init__ with the queue's append replaced by an insert at the head
AppEventPrepend(q, e) == <<e>> \o q

\* AppEvent.__init__, first statement: EventQueue.event_queue.append(self)
AppEventAppend(q, e) == Append(q, e)

\* AppEvent.__init__ with a signal that toggles instead of setting
AppEventSignalToggle(flag) == ~flag

\* AppEvent.__init__ that never sets the flag
AppEventSignalNever(flag) == flag

\* AppEvent.__init__, second statement: EventQueue.event_flag.set()
AppEventSignal(flag) == TRUE

\* RefreshEvent.__init__ that runs AppEvent.__init__ like every other event
RefreshEventInitQueued(q, flag) ==
    [event |-> [type |-> "RefreshEvent", id |-> 0],
     queue |-> Append(q, [type |-> "RefreshEvent", id |-> 0]),
     flag |-> TRUE]

\* RefreshEvent.__init__ is "pass": the queue and the flag stay as they are
RefreshEventInit(q, flag) ==
    [event |-> [type |-> "RefreshEvent", id |-> 0], queue |-> q, flag |-> flag]

\* EventQueue.pop, the truth test of "if EventQueue.event_queue"
QueueTruthy(q) == Len(q) > 0

\* EventQueue.pop taking the newest event, list.pop() instead of list.pop(0)
QueuePopLast(q) == [ret |-> q[Len(q)], rest |-> SubSeq(q, 1, Len(q) - 1)]

\* EventQueue.pop, "EventQueue.event_queue.pop(0)"
QueuePop0(q) == [ret |-> Head(q), rest |-> Tail(q)]

\* EventQueue.check that leaves the flag as it found it
FlagKeep(flag) == flag

\* EventQueue.check, "EventQueue.event_flag.clear()"
FlagClear(flag) == FALSE

\* ---------------------------------------------------------------- publish
\* MQTTClient.publish: msg.rc > 0 returns False, otherwise True; RuntimeError
\* returns False; the ValueError handler formats msg.rc, but msg was never
\* bound when client.publish raised, so the handler raises UnboundLocalError
publish(outcome) ==
    IF outcome.kind = "rc"
    THEN [ret |-> IF outcome.rc > 0 THEN "False" ELSE "True", exc |-> "none"]
    ELSE IF outcome.kind = "ValueError"
    THEN [ret |-> "none", exc |-> "UnboundLocalError"]
    ELSE [ret |-> "False", exc |-> "none"]

\* ---------------------------------------------------------------- initial state
\* MQTTBaseApp.main is entered with arguments that configure a birth topic
\* (b true) or none (b false): MQTTClient.__init__ stores birth_msg, or None
InitWith(b) ==
    /\ event_queue = <<>>
    /\ event_flag = FALSE
    /\ connected = FALSE
    /\ loop_started = FALSE
    /\ tpc = "idle"
    /\ targs = NoArgs
    /\ birth_msg = b
    /\ pc = "main"
    /\ mqtt_connected = FALSE
    /\ sleep_interval = "unset"
    /\ event = None
    /\ check_ret = FALSE
    /\ exc = "none"
    /\ exc_rc = 0
    /\ publish_call = NoPublish
    /\ client = FALSE
    /\ handler_installed = FALSE
    /\ interrupted = "none"
    /\ rc = 0
    /\ propagating = "none"
    /\ exit_code = -1
    /\ callbacks_set = FALSE
    /\ transport_connects = 0
    /\ app_shutdowns = 0
    /\ mqtt_shutdowns = 0
    /\ loop_stops = 0
    /\ enq = <<>>
    /\ popped = <<>>
    /\ handled = <<>>
    /\ discovery = <<>>
    /\ signalled = FALSE
    /\ iter = NewIteration
    /\ draining = FALSE
    /\ iterated = FALSE
    /\ waited = <<>>
    /\ nconnects = 0
    /\ births = 0
    /\ napp = 0
    /\ ntimeouts = 0
    /\ nsignals = 0

\* MQTTBaseApp.main is entered.  The arguments configure a birth topic: with
\* none configured on_connect behaves as it does when the birth publish
\* returns, less the publish itself
Init == InitWith(TRUE)

\* MQTTBaseApp.main is entered, with or without a birth topic configured
InitAnyBirth == \E b \in BOOLEAN : InitWith(b)


\* ---------------------------------------------------------------- transport thread
\* where on_connect continues after the rc test and the birth publish: a
\* failure code is logged; a success code with a birth message calls the
\* transport's publish directly, whose result is dropped and whose exception
\* leaves on_connect (paho re-raises an exception of a callback, which ends
\* the network thread)
AfterBirth(a, o) ==
    IF a.rc > 0 \/ ~birth_msg \/ o.kind = "rc" THEN "append" ELSE "raised"

\* an on_connect that publishes the birth message whatever the result code
PublishesBirthAlways(a) == birth_msg

\* whether on_connect calls the transport's publish for the birth message: in
\* the else branch of "if rc > 0", under "if self.birth_msg"
PublishesBirth(a) == ~(a.rc > 0) /\ birth_msg

\* MQTTClient.on_connect up to the construction of the event: a success code
\* sets self.connected and publishes the birth message
OnConnect ==
    /\ loop_started
    /\ tpc = "idle"
    /\ nconnects < MaxConnects
    /\ \E a \in ConnackArgs, o \in PublishOutcomes :
        /\ targs' = [cb |-> "on_connect", flags |-> a.flags, rc |-> a.rc]
        /\ connected' = IF a.rc > 0 THEN connected ELSE TRUE
        /\ tpc' = AfterBirth(a, o)
        /\ births' = IF PublishesBirth(a) THEN births + 1 ELSE births
    /\ nconnects' = nconnects + 1
    /\ UNCHANGED <<loop_started, queue_vars, sched_vars, app_vars, hist_vars,
                   wrap_vars>>

\* MQTTConnectEvent(flags, rc): the append of AppEvent.__init__
OnConnectAppend ==
    /\ tpc = "append"
    /\ LET e == MQTTConnectEvent(Len(enq) + 1, targs.flags, targs.rc) IN
        /\ event_queue' = AppEventAppend(event_queue, e)
        /\ enq' = Append(enq, e)
    /\ waited' = Append(waited, 0)
    /\ tpc' = "set"
    /\ UNCHANGED <<event_flag, connected, loop_started, targs, nconnects, births,
                   sched_vars, app_vars, wrap_vars,
                   popped, handled, discovery, signalled, iter, ntimeouts,
                   draining, iterated>>

\* MQTTConnectEvent(flags, rc): the event_flag.set() of AppEvent.__init__
OnConnectSignal ==
    /\ tpc = "set"
    /\ event_flag' = AppEventSignal(event_flag)
    /\ signalled' = TRUE
    /\ tpc' = "idle"
    /\ targs' = NoArgs
    /\ UNCHANGED <<event_queue, connected, loop_started, nconnects, births,
                   sched_vars, app_vars, wrap_vars,
                   enq, popped, handled, discovery, iter, ntimeouts,
                   draining, iterated, waited>>

\* MQTTClient.on_disconnect with the MQTTConnectEvent(None, rc) that the
\* source has commented out
OnDisconnectEnqueue ==
    /\ loop_started
    /\ tpc = "idle"
    /\ \E r \in DisconnectCodes :
        targs' = [cb |-> "on_disconnect", flags |-> 0, rc |-> r]
    /\ tpc' = "append"
    /\ UNCHANGED <<connected, loop_started, nconnects, births, queue_vars, sched_vars,
                   app_vars, hist_vars, wrap_vars>>

\* an on_disconnect that marks the wrapper disconnected
OnDisconnectReset ==
    /\ loop_started
    /\ tpc = "idle"
    /\ \E r \in DisconnectCodes :
        targs' = [cb |-> "on_disconnect", flags |-> 0, rc |-> r]
    /\ connected' = FALSE
    /\ tpc' = "disconnect"
    /\ UNCHANGED <<loop_started, nconnects, births, queue_vars, sched_vars,
                   app_vars, hist_vars, wrap_vars>>

\* MQTTClient.on_disconnect is called: rc > 0 is logged, nothing else happens
OnDisconnect ==
    /\ loop_started
    /\ tpc = "idle"
    /\ \E r \in DisconnectCodes :
        targs' = [cb |-> "on_disconnect", flags |-> 0, rc |-> r]
    /\ tpc' = "disconnect"
    /\ UNCHANGED <<connected, loop_started, nconnects, births, queue_vars, sched_vars,
                   app_vars, hist_vars, wrap_vars>>

\* MQTTClient.on_disconnect returns
OnDisconnectReturn ==
    /\ tpc = "disconnect"
    /\ tpc' = "idle"
    /\ targs' = NoArgs
    /\ UNCHANGED <<connected, loop_started, nconnects, births, queue_vars, sched_vars,
                   app_vars, hist_vars, wrap_vars>>

\* ---------------------------------------------------------------- main thread
\* the try body of start() ends with exception e: control is at the except
\* clauses
Raise(e) ==
    /\ pc' = "exit"
    /\ exc' = e

\* MQTTBaseApp.main, "app = cls(args)": a failing constructor prints the error
\* and calls exit(255)
Construct ==
    /\ pc = "main"
    /\ \/ pc' = "start" /\ client' = TRUE /\ UNCHANGED exit_code
       \/ pc' = "exited" /\ exit_code' = 255 /\ UNCHANGED client
    /\ UNCHANGED <<queue_vars, transport_vars, mqtt_connected, sleep_interval,
                   event, check_ret, exc, app_vars, hist_vars,
                   birth_msg, exc_rc, handler_installed, interrupted, rc,
                   propagating,
                   callbacks_set, transport_connects, app_shutdowns,
                   mqtt_shutdowns, loop_stops, nsignals>>

\* start(), "rc = 0; signal.signal(signal.SIGTERM, sigterm_handler)"
StartInstall ==
    /\ pc = "start"
    /\ rc' = 0
    /\ handler_installed' = TRUE
    /\ pc' = "setup"
    /\ UNCHANGED <<queue_vars, transport_vars, mqtt_connected, sleep_interval,
                   event, check_ret, exc, app_vars, hist_vars,
                   birth_msg, client, exc_rc, interrupted, propagating, exit_code,
                   callbacks_set, transport_connects, app_shutdowns,
                   mqtt_shutdowns, loop_stops, nsignals>>

\* start(), "app.setup(args)": the application's setup returns or raises
Setup ==
    /\ pc = "setup"
    /\ \/ pc' = "connect" /\ UNCHANGED exc
       \/ Raise("SetupError")
    /\ UNCHANGED <<queue_vars, transport_vars, mqtt_connected, sleep_interval,
                   event, check_ret, app_vars, hist_vars, wrap_vars>>

\* MQTTClient.connect, the assignments of client.on_connect and
\* client.on_disconnect
ConnectRegister ==
    /\ pc = "connect"
    /\ callbacks_set' = TRUE
    /\ pc' = "connect_call"
    /\ UNCHANGED <<queue_vars, transport_vars, mqtt_connected, sleep_interval,
                   event, check_ret, exc, app_vars, hist_vars,
                   birth_msg, client, exc_rc, handler_installed, interrupted, rc,
                   propagating,
                   exit_code, transport_connects, app_shutdowns,
                   mqtt_shutdowns, loop_stops, nsignals>>

\* MQTTClient.connect calling the transport's connect again after it raised
ConnectTransportRetry ==
    /\ pc = "connect_call"
    /\ transport_connects' = transport_connects + 1
    /\ pc' \in {"loop_start", "connect_call"}
    /\ UNCHANGED <<queue_vars, transport_vars, mqtt_connected, sleep_interval,
                   event, check_ret, exc, app_vars, hist_vars,
                   birth_msg, client, exc_rc, handler_installed, interrupted, rc,
                   propagating,
                   exit_code, callbacks_set, app_shutdowns,
                   mqtt_shutdowns, loop_stops, nsignals>>

\* MQTTClient.connect, "self.client.connect(host, port, keepalive)": an
\* exception of the transport is wrapped and raised to _main_loop, which lets
\* it pass to start()
ConnectTransport ==
    /\ pc = "connect_call"
    /\ transport_connects' = transport_connects + 1
    /\ \/ pc' = "loop_start" /\ UNCHANGED exc
       \/ Raise("ConnectionFailed")
    /\ UNCHANGED <<queue_vars, transport_vars, mqtt_connected, sleep_interval,
                   event, check_ret, app_vars, hist_vars,
                   birth_msg, client, exc_rc, handler_installed, interrupted, rc,
                   propagating,
                   exit_code, callbacks_set, app_shutdowns,
                   mqtt_shutdowns, loop_stops, nsignals>>

\* MQTTClient.connect, "self.client.loop_start()", and the locals _main_loop
\* sets before the while loop
MainLoopConnect ==
    /\ pc = "loop_start"
    /\ loop_started' = TRUE
    /\ mqtt_connected' = FALSE
    /\ sleep_interval' = "connect_timeout"
    /\ pc' = "wait"
    /\ UNCHANGED <<queue_vars, connected, tpc, targs, nconnects, births,
                   event, check_ret, exc, app_vars, hist_vars, wrap_vars>>

\* event_queue.wait(sleep_interval): returns when the flag is set or when the
\* interval has elapsed
Wait ==
    /\ pc = "wait"
    /\ \/ event_flag /\ ntimeouts' = ntimeouts
       \/ ~event_flag /\ ntimeouts < MaxTimeouts /\ ntimeouts' = ntimeouts + 1
    /\ iter' = [iter EXCEPT !.waits = @ + 1]
    /\ pc' = "check"
    /\ UNCHANGED <<queue_vars, transport_vars, mqtt_connected, sleep_interval,
                   event, check_ret, exc, app_vars, wrap_vars,
                   enq, popped, handled, discovery, signalled, draining,
                   iterated, waited>>

\* EventQueue.check, "if EventQueue.event_flag.is_set()"; the False return
CheckIsSet ==
    /\ pc = "check"
    /\ IF event_flag
       THEN pc' = "clear" /\ UNCHANGED check_ret
       ELSE pc' = "nosignal" /\ check_ret' = FALSE
    /\ iter' = [iter EXCEPT !.checks = @ + 1]
    /\ UNCHANGED <<queue_vars, transport_vars, mqtt_connected, sleep_interval,
                   event, exc, app_vars, wrap_vars,
                   enq, popped, handled, discovery, signalled, ntimeouts,
                   draining, iterated, waited>>

\* EventQueue.check, "EventQueue.event_flag.clear(); return True"
CheckClear ==
    /\ pc = "clear"
    /\ event_flag' = FlagClear(event_flag)
    /\ check_ret' = TRUE
    /\ signalled' = FALSE
    /\ draining' = TRUE
    /\ waited' = [i \in DOMAIN waited |-> waited[i] + 1]
    /\ pc' = "pop"
    /\ UNCHANGED <<event_queue, transport_vars, mqtt_connected, sleep_interval,
                   event, exc, app_vars, wrap_vars,
                   enq, popped, handled, discovery, iter, ntimeouts, iterated>>

\* EventQueue.pop, "if EventQueue.event_queue" and the "return None" that
\* ends the drain
PopTest ==
    /\ pc = "pop"
    /\ IF QueueTruthy(event_queue)
       THEN pc' = "pop0" /\ UNCHANGED <<event, iter, draining>>
       ELSE /\ event' = None
            /\ iter' = [iter EXCEPT !.pops = @ + 1]
            /\ draining' = FALSE
            /\ pc' = "interval"
    /\ UNCHANGED <<queue_vars, transport_vars, mqtt_connected, sleep_interval,
                   check_ret, exc, app_vars, wrap_vars,
                   enq, popped, handled, discovery, signalled, ntimeouts,
                   iterated, waited>>

\* EventQueue.pop, "return EventQueue.event_queue.pop(0)"
PopTake ==
    /\ pc = "pop0"
    /\ LET r == QueuePop0(event_queue) IN
        /\ event' = r.ret
        /\ event_queue' = r.rest
        /\ popped' = Append(popped, r.ret)
    /\ waited' = Tail(waited)
    /\ iter' = [iter EXCEPT !.pops = @ + 1]
    /\ pc' = "process"
    /\ UNCHANGED <<event_flag, transport_vars, mqtt_connected, sleep_interval,
                   check_ret, exc, app_vars, wrap_vars,
                   enq, handled, discovery, signalled, ntimeouts, draining,
                   iterated>>

\* a loop whose flag follows the result code of the last ConnectEvent
ConnectedFollowsRc(e, mc) == IF IsConnect(e) THEN e.rc = 0 ELSE mc

\* mqtt_connected after the isinstance block of the drain loop
ConnectedAfter(e, mc) == IF IsSuccess(e) THEN TRUE ELSE mc

\* a discovery call made only for a ConnectEvent that finds the loop connected
CallsDiscoveryIfConnected(e, mc) == IsConnect(e) /\ mc

\* whether the isinstance block calls self._publish_mqtt_discovery(): the call
\* is indented under "if isinstance(event, MQTTConnectEvent)", beside (not
\* under) "if event.rc == 0"
CallsDiscovery(e, mc) == IsConnect(e)

\* the isinstance block of the drain loop
ProcessEvent ==
    /\ pc = "process"
    /\ mqtt_connected' = ConnectedAfter(event, mqtt_connected)
    /\ discovery' =
         IF CallsDiscovery(event, mqtt_connected)
         THEN Append(discovery, [ev |-> event, before |-> mqtt_connected,
                                 after |-> ConnectedAfter(event, mqtt_connected)])
         ELSE discovery
    /\ pc' = "handle"
    /\ UNCHANGED <<queue_vars, transport_vars, sleep_interval, event, check_ret,
                   exc, app_vars, wrap_vars, enq, popped, handled, signalled,
                   iter, ntimeouts, draining, iterated, waited>>

\* an elif that is taken whether or not the loop is connected
RefreshDueAlways(mc) == TRUE

\* "elif mqtt_connected": the branch that synthesizes a RefreshEvent
RefreshDue(mc) == mc

\* the elif/else of the loop body: RefreshEvent() when connected, otherwise
\* raise Exception("connection to MQTT broker timed out")
NoSignal ==
    /\ pc = "nosignal"
    /\ IF RefreshDue(mqtt_connected)
       THEN LET r == RefreshEventInit(event_queue, event_flag) IN
            /\ event' = r.event
            /\ event_queue' = r.queue
            /\ event_flag' = r.flag
            /\ iter' = [iter EXCEPT !.refresh = @ + 1]
            /\ pc' = "handle"
            /\ exc' = exc
       ELSE /\ Raise("ConnectTimeout")
            /\ UNCHANGED <<event, queue_vars, iter>>
    /\ UNCHANGED <<transport_vars, mqtt_connected, sleep_interval, check_ret,
                   app_vars, wrap_vars, enq, popped, handled, discovery,
                   signalled, ntimeouts, draining, iterated, waited>>

\* a loop that goes on to pop after every handle_event call
AfterHandleAlwaysPop(e) == "pop"

\* a drain that ends after its first handle_event call
AfterHandleNoDrain(e) == "interval"

\* where _main_loop continues after handle_event(event) returns
AfterHandle(e) == IF IsRefresh(e) THEN "interval" ELSE "pop"

\* the record of one handle_event call
Delivery(e) == [ev |-> e, disc |-> Len(discovery)]

\* self.handle_event(event) is called: the history of the call
Deliver ==
    /\ handled' = Append(handled, Delivery(event))
    /\ iter' = [iter EXCEPT !.handled = @ + 1]

\* self.handle_event(event), the handler returning without touching the core
HandleEvent ==
    /\ pc = "handle"
    /\ Deliver
    /\ pc' = AfterHandle(event)
    /\ UNCHANGED <<queue_vars, transport_vars, mqtt_connected, sleep_interval,
                   event, check_ret, exc, app_vars, wrap_vars,
                   enq, popped, discovery, signalled, ntimeouts, draining,
                   iterated, waited>>

\* self.handle_event(event), the handler constructing an application event:
\* the append of AppEvent.__init__
HandleEventEnqueue ==
    /\ pc = "handle"
    /\ napp < MaxAppEvents
    /\ Deliver
    /\ LET e == ApplicationEvent(Len(enq) + 1) IN
        /\ event_queue' = AppEventAppend(event_queue, e)
        /\ enq' = Append(enq, e)
    /\ waited' = Append(waited, 0)
    /\ napp' = napp + 1
    /\ pc' = "handle_set"
    /\ UNCHANGED <<event_flag, transport_vars, mqtt_connected, sleep_interval,
                   event, check_ret, exc, publish_call, wrap_vars,
                   popped, discovery, signalled, ntimeouts, draining,
                   iterated>>

\* the event_flag.set() of that AppEvent.__init__, then the handler returns
HandleEventSignal ==
    /\ pc = "handle_set"
    /\ event_flag' = AppEventSignal(event_flag)
    /\ signalled' = TRUE
    /\ pc' = AfterHandle(event)
    /\ UNCHANGED <<event_queue, transport_vars, mqtt_connected, sleep_interval,
                   event, check_ret, exc, app_vars, wrap_vars,
                   enq, popped, handled, discovery, iter, ntimeouts, draining,
                   iterated, waited>>

\* self.handle_event(event), the handler calling publish_mqtt, which calls
\* MQTTClient.publish; the transport's publish ends in one of PublishOutcomes
HandleEventPublish ==
    /\ pc = "handle"
    /\ Deliver
    /\ \E o \in PublishOutcomes :
        LET r == publish(o) IN
        publish_call' = [outcome |-> o, ret |-> r.ret, exc |-> r.exc]
    /\ pc' = "publish_ret"
    /\ UNCHANGED <<queue_vars, transport_vars, mqtt_connected, sleep_interval,
                   event, check_ret, exc, napp, wrap_vars,
                   enq, popped, discovery, signalled, ntimeouts, draining,
                   iterated, waited>>

\* MQTTClient.publish returns to the handler, which returns to _main_loop; an
\* exception of publish propagates out of handle_event and ends _main_loop
PublishReturn ==
    /\ pc = "publish_ret"
    /\ IF publish_call.exc = "none"
       THEN /\ pc' = AfterHandle(event)
            /\ publish_call' = NoPublish
            /\ exc' = exc
       ELSE /\ Raise(publish_call.exc)
            /\ UNCHANGED publish_call
    /\ UNCHANGED <<queue_vars, transport_vars, mqtt_connected, sleep_interval,
                   event, check_ret, napp, hist_vars, wrap_vars>>

\* self.handle_event(event), the handler raising ExitApp(rc) to end the
\* application
HandleEventExit ==
    /\ pc = "handle"
    /\ Deliver
    /\ Raise("ExitApp")
    /\ \E r \in AppExitCodes : exc_rc' = r
    /\ UNCHANGED <<queue_vars, transport_vars, mqtt_connected, sleep_interval,
                   event, check_ret, app_vars,
                   enq, popped, discovery, signalled, ntimeouts, draining,
                   iterated, waited,
                   birth_msg, client, handler_installed, interrupted, rc,
                   propagating, exit_code,
                   callbacks_set, transport_connects, app_shutdowns,
                   mqtt_shutdowns, loop_stops, nsignals>>

\* a loop that keeps the interval it started with
KeepInterval(s) == s

\* self.get_refresh_interval(): the base class returns self.refresh_interval
GetRefreshInterval(s) == "refresh_interval"

\* sleep_interval = self.get_refresh_interval()
RefreshInterval ==
    /\ pc = "interval"
    /\ sleep_interval' = GetRefreshInterval(sleep_interval)
    /\ iterated' = TRUE
    /\ iter' = NewIteration
    /\ pc' = "wait"
    /\ UNCHANGED <<queue_vars, transport_vars, mqtt_connected, event, check_ret,
                   exc, app_vars, wrap_vars,
                   enq, popped, handled, discovery, signalled, ntimeouts,
                   draining, waited>>

\* ---------------------------------------------------------------- exit path
\* rc after the except clauses of start(): KeyboardInterrupt leaves rc as it
\* is, ExitApp stores exc.rc, every other Exception stores 255
ExceptRc(e, erc, r) ==
    IF e = "KeyboardInterrupt" THEN r
    ELSE IF e = "ExitApp" THEN erc
    ELSE 255

\* exit status of the interpreter when exception e leaves start() uncaught:
\* 1 with a traceback; an uncaught KeyboardInterrupt ends the process by
\* SIGINT, which a shell reports as 130
ExitUncaught(e) == IF e = "KeyboardInterrupt" THEN 130 ELSE 1

\* the except clause of start() that matches the exception runs; control
\* enters the finally block
Except ==
    /\ pc = "exit"
    /\ rc' = ExceptRc(exc, exc_rc, rc)
    /\ pc' = "shutdown_app"
    /\ UNCHANGED <<queue_vars, transport_vars, mqtt_connected, sleep_interval,
                   event, check_ret, exc, app_vars, hist_vars,
                   birth_msg, client, exc_rc, handler_installed, interrupted,
                   propagating, exit_code, callbacks_set, transport_connects,
                   app_shutdowns, mqtt_shutdowns, loop_stops, nsignals>>

\* _shutdown, "self.shutdown()"
ShutdownApp ==
    /\ pc = "shutdown_app"
    /\ app_shutdowns' = app_shutdowns + 1
    /\ pc' = "shutdown_mqtt"
    /\ UNCHANGED <<queue_vars, transport_vars, mqtt_connected, sleep_interval,
                   event, check_ret, exc, app_vars, hist_vars,
                   birth_msg, client, exc_rc, handler_installed, interrupted,
                   rc, propagating, exit_code, callbacks_set,
                   transport_connects, mqtt_shutdowns, loop_stops, nsignals>>

\* MQTTClient.shutdown: "if self.client: self.client.loop_stop()"; the number
\* of loop_stop calls after a call of shutdown. Nothing clears self.client
MQTTClientShutdown(c, stops) == IF c THEN stops + 1 ELSE stops

\* _shutdown, "if self._mqtt_client: self._mqtt_client.shutdown()"; loop_stop
\* joins the network thread, which ends after the callback it is running
ShutdownMqtt ==
    /\ pc = "shutdown_mqtt"
    /\ tpc \in {"idle", "raised"}
    /\ mqtt_shutdowns' = mqtt_shutdowns + 1
    /\ loop_stops' = MQTTClientShutdown(client, loop_stops)
    /\ loop_started' = FALSE
    /\ pc' = "exit_call"
    /\ UNCHANGED <<queue_vars, connected, tpc, targs, nconnects, births,
                   mqtt_connected, sleep_interval, event, check_ret, exc,
                   app_vars, hist_vars,
                   birth_msg, client, exc_rc, handler_installed, interrupted,
                   rc, propagating, exit_code, callbacks_set,
                   transport_connects, app_shutdowns, nsignals>>

\* start(), "exit(rc)" after the finally block; an exception raised inside an
\* except clause or the finally block passes the exit(rc) by and ends the
\* process uncaught
ExitCall ==
    /\ pc = "exit_call"
    /\ exit_code' = IF propagating = "none" THEN rc ELSE ExitUncaught(propagating)
    /\ pc' = "exited"
    /\ UNCHANGED <<queue_vars, transport_vars, mqtt_connected, sleep_interval,
                   event, check_ret, exc, app_vars, hist_vars,
                   birth_msg, client, exc_rc, handler_installed, interrupted,
                   rc, propagating, callbacks_set, transport_connects,
                   app_shutdowns, mqtt_shutdowns, loop_stops, nsignals>>

\* ---------------------------------------------------------------- signals
\* the exception a signal raises in the main thread: sigterm_handler raises
\* ExitApp(0), the interpreter's SIGINT handler raises KeyboardInterrupt
SignalException(sig) == IF sig = "SIGTERM" THEN "ExitApp" ELSE "KeyboardInterrupt"

\* positions of the main thread inside the try body of start()
TryBody ==
    {"setup", "connect", "connect_call", "loop_start", "wait", "check", "clear",
     "nosignal", "pop", "pop0", "process", "handle", "handle_set",
     "publish_ret", "interval"}

\* a signal is delivered to the main thread. Inside the try body the exception
\* reaches the except clauses of start(), except that an ExitApp raised while
\* client.connect runs is an Exception, which MQTTClient.connect catches and
\* wraps. Inside an except clause the exception propagates and the finally
\* block runs; inside the finally block it ends _shutdown where it is; in both
\* cases exit(rc) is not reached
Signal ==
    /\ handler_installed
    /\ nsignals < MaxSignals
    /\ nsignals' = nsignals + 1
    /\ \E sig \in {"SIGTERM", "SIGINT"} :
        LET e == SignalException(sig) IN
        \/ /\ pc \in TryBody
           /\ Raise(e)
           /\ exc_rc' = 0
           /\ interrupted' = sig
           /\ UNCHANGED <<propagating, transport_connects>>
        \/ /\ pc = "connect_call"
           /\ e = "ExitApp"
           /\ Raise("ConnectionFailed")
           /\ interrupted' = sig
           /\ transport_connects' = transport_connects + 1
           /\ UNCHANGED <<propagating, exc_rc>>
        \/ /\ pc = "exit"
           /\ propagating' = e
           /\ pc' = "shutdown_app"
           /\ UNCHANGED <<exc, exc_rc, interrupted, transport_connects>>
        \/ /\ pc \in {"shutdown_app", "shutdown_mqtt", "exit_call"}
           /\ propagating' = e
           /\ pc' = "exit_call"
           /\ UNCHANGED <<exc, exc_rc, interrupted, transport_connects>>
    /\ UNCHANGED <<queue_vars, transport_vars, mqtt_connected, sleep_interval,
                   event, check_ret, app_vars, hist_vars,
                   birth_msg, client, handler_installed, rc, exit_code,
                   callbacks_set, app_shutdowns, mqtt_shutdowns, loop_stops>>

\* ---------------------------------------------------------------- specification
\* steps of the transport's network thread
TransportNext ==
    \/ OnConnect
    \/ OnConnectAppend
    \/ OnConnectSignal
    \/ OnDisconnect
    \/ OnDisconnectReturn

\* steps of the main thread: start() up to the while loop of _main_loop
StartNext ==
    \/ Construct
    \/ StartInstall
    \/ Setup
    \/ ConnectRegister
    \/ ConnectTransport
    \/ MainLoopConnect

\* steps of the main thread: the while loop of _main_loop
LoopNext ==
    \/ Wait
    \/ CheckIsSet
    \/ CheckClear
    \/ PopTest
    \/ PopTake
    \/ ProcessEvent
    \/ NoSignal
    \/ HandleEvent
    \/ HandleEventEnqueue
    \/ HandleEventSignal
    \/ HandleEventPublish
    \/ PublishReturn
    \/ HandleEventExit
    \/ RefreshInterval

\* steps of the main thread: the except clauses, the finally block and the
\* exit of start()
ExitNext ==
    \/ Except
    \/ ShutdownApp
    \/ ShutdownMqtt
    \/ ExitCall

Next == TransportNext \/ StartNext \/ LoopNext \/ ExitNext

Spec == Init /\ [][Next]_vars

\* the program with SIGTERM and SIGINT delivered to it
SpecSignals == Init /\ [][Next \/ Signal]_vars

\* the program under either birth configuration
SpecAnyBirth == InitAnyBirth /\ [][Next]_vars

\* the main thread keeps running while it can: a wait returns once the flag is
\* set or the interval has elapsed
FairMain == StartNext \/ LoopNext \/ ExitNext

\* a callback that has begun runs to its end; whether the broker ever answers
\* is left open
FairTransport == OnConnectAppend \/ OnConnectSignal \/ OnDisconnectReturn

\* the program under fair scheduling of its two threads
FairSpec == Spec /\ WF_vars(FairMain) /\ WF_vars(FairTransport)

\* ---------------------------------------------------------------- properties
IsPrefix(s, t) == Len(s) <= Len(t) /\ \A i \in 1..Len(s) : s[i] = t[i]

\* the events handle_event received, in call order
HandledEvents == [i \in 1..Len(handled) |-> handled[i].ev]

\* the events handle_event received from the queue
IsQueued(e) == ~IsRefresh(e)
HandledFromQueue == SelectSeq(HandledEvents, IsQueued)

\* a step of the scheduler thread that leaves position p
Leaves(p) == pc = p /\ pc' # p

\* an AppEvent constructor has appended and not yet set the flag
MidEnqueue == tpc = "set" \/ pc = "handle_set"

\* the scheduler is between the clear of a check that returned True and the
\* end of the drain that follows it (a pop returning None, or an exception)
MidDrain == draining

\* C1: the non-None pops return the events in construction order: at every
\* moment the popped events are a prefix of the appended ones and the queue
\* holds exactly the rest.  pop returns None exactly when it finds the queue
\* empty, a non-None pop returns and removes the oldest pending event, and
\* the queue is empty right after the pop that returned None.
C1_FifoState ==
    /\ IsPrefix(popped, enq)
    /\ event_queue = SubSeq(enq, Len(popped) + 1, Len(enq))
C1_PopStep ==
    /\ Leaves("pop") =>
        /\ (pc' = "interval") <=> (event_queue = <<>>)
        /\ pc' = "interval" => event' = None /\ event_queue' = <<>>
        /\ pc' # "interval" => pc' = "pop0" /\ event_queue' = event_queue
    /\ Leaves("pop0") =>
        /\ event' = Head(event_queue)
        /\ event' # None
        /\ event_queue' = Tail(event_queue)
C1_Fifo == [](C1_FifoState) /\ [][C1_PopStep]_vars

\* C1 witness: two events were pending together, both were popped in one
\* drain, and the pop after them returned None
C1_Witness ==
    /\ pc = "interval" /\ event = None
    /\ iter.pops >= 3
    /\ Len(popped) = Len(enq)

\* C2: with the transport thread enqueuing while the scheduler drains, the
\* events handle_event receives from the queue are a duplicate-free prefix
\* of the enqueued events in enqueue order, and every popped event is
\* forwarded in pop order: only the event being processed is popped and not
\* yet forwarded.
C2_NoLossNoDuplicate ==
    /\ IsPrefix(HandledFromQueue, enq)
    /\ \A i, j \in 1..Len(HandledFromQueue) :
         i # j => HandledFromQueue[i] # HandledFromQueue[j]
    /\ IsPrefix(HandledFromQueue, popped)
    /\ IF pc \in {"process", "handle"} /\ ~IsRefresh(event)
       THEN /\ Len(popped) = Len(HandledFromQueue) + 1
            /\ popped[Len(popped)] = event
       ELSE popped = HandledFromQueue

\* C2 witness: the transport thread is between its append and its set while
\* the scheduler is delivering the second event of a drain
C2_Witness ==
    /\ tpc = "set"
    /\ pc = "pop"
    /\ iter.handled >= 2
    /\ Len(event_queue) >= 1

\* C3: check returns True exactly when it finds the flag set, the flag is
\* False right after the clear of a check that returns True, and a check
\* returns True only if the flag was set since the last check that returned
\* True, so one enqueue makes at most one check return True.
C3_CheckStep ==
    /\ Leaves("check") =>
        /\ (pc' = "clear") <=> event_flag
        /\ pc' # "clear" => pc' = "nosignal" /\ ~check_ret'
        /\ event_flag' = event_flag
    /\ Leaves("clear") =>
        /\ check_ret'
        /\ ~event_flag'
        /\ signalled
C3_TestAndClear == [](event_flag => signalled) /\ [][C3_CheckStep]_vars

\* C3 witness: after a check that returned True and a drain, with no enqueue
\* in between, the next check returned False
C3_Witness ==
    /\ pc = "nosignal"
    /\ ~check_ret
    /\ Len(popped) >= 1
    /\ ~signalled

C4_QuiescentState ==
    (~MidEnqueue /\ ~MidDrain /\ event_queue # <<>>) => event_flag
C4_SetStep ==
    ((tpc = "set" /\ tpc' # "set") \/ Leaves("handle_set")) =>
        /\ event_flag'
        /\ event_flag => UNCHANGED queue_vars
C5_NoDiscoveryOnFailedConnect ==
    \A i \in 1..Len(discovery) :
        ~(discovery[i].ev.rc > 0 /\ ~discovery[i].before)

\* C6: once the loop is connected, discovery publication has been triggered
\* exactly once, by the ConnectEvent that took mqtt_connected from false to
\* true: no ConnectEvent processed while mqtt_connected is already true
\* triggers it again.  (Calls made before the loop is connected are C5's.)
C6_DiscoveryExactlyOnce ==
    /\ \A i \in 1..Len(discovery) :
         discovery[i].after => ~discovery[i].before
    /\ \A i, j \in 1..Len(discovery) :
         (discovery[i].after /\ discovery[j].after) => i = j
    /\ (\E i \in 1..Len(handled) : IsSuccess(handled[i].ev)) =>
         \E i \in 1..Len(discovery) : discovery[i].after

\* the first successful ConnectEvent handle_event received
FirstSuccess(i) ==
    /\ IsSuccess(handled[i].ev)
    /\ \A j \in 1..(i - 1) : ~IsSuccess(handled[j].ev)

\* C7: when handle_event receives the first ConnectEvent with rc == 0, the
\* discovery call for that very event has already been made, and when it
\* receives a RefreshEvent a discovery call has already been made.
C7_DiscoveryBeforeDelivery ==
    \A i \in 1..Len(handled) :
        /\ FirstSuccess(i) =>
             \E k \in 1..handled[i].disc : discovery[k].ev = handled[i].ev
        /\ IsRefresh(handled[i].ev) => handled[i].disc >= 1

\* C7 witness: a successful ConnectEvent and then a RefreshEvent were handled
C7_Witness ==
    \E i, j \in 1..Len(handled) :
        /\ i < j
        /\ FirstSuccess(i)
        /\ IsRefresh(handled[j].ev)

\* C8: when check finds no signal after a wait and mqtt_connected is false,
\* the loop ends by raising the connect timeout, which is raised in no other
\* case; and every RefreshEvent handle_event receives comes after a
\* ConnectEvent with rc == 0 that the loop has processed and forwarded.
C8_TimeoutStep ==
    /\ (Leaves("nosignal") /\ ~mqtt_connected) =>
         pc' = "exit" /\ exc' = "ConnectTimeout"
    /\ (exc = "none" /\ exc' = "ConnectTimeout") =>
         pc = "nosignal" /\ ~check_ret /\ ~mqtt_connected
C8_RefreshAfterConnect ==
    \A j \in 1..Len(handled) :
        IsRefresh(handled[j].ev) =>
            \E i \in 1..(j - 1) :
                /\ IsSuccess(handled[i].ev)
                /\ \E k \in 1..Len(popped) : popped[k] = handled[i].ev
C8_ConnectTimeout == [](C8_RefreshAfterConnect) /\ [][C8_TimeoutStep]_vars

\* C8 witness: the loop was woken by a failed ConnectEvent, forwarded it, and
\* raised the timeout when the next wait elapsed
C8_Witness ==
    /\ pc = "exit"
    /\ exc = "ConnectTimeout"
    /\ Len(handled) >= 1
    /\ ~mqtt_connected

\* C9: when check finds no signal after a wait and mqtt_connected is true,
\* the iteration constructs one RefreshEvent, hands exactly that one event to
\* handle_event and pops nothing; constructing it leaves the pending sequence
\* and the wake signal as they were, so no RefreshEvent is ever appended to
\* or popped from the queue.
C9_RefreshState ==
    /\ iter.refresh <= 1
    /\ (pc = "interval" /\ ~check_ret) =>
        /\ iter.refresh = 1
        /\ iter.handled = 1
        /\ iter.pops = 0
        /\ IsRefresh(handled[Len(handled)].ev)
    /\ \A i \in 1..Len(enq) : ~IsRefresh(enq[i])
    /\ \A i \in 1..Len(popped) : ~IsRefresh(popped[i])
    /\ \A i \in 1..Len(event_queue) : ~IsRefresh(event_queue[i])
C9_RefreshStep ==
    (Leaves("nosignal") /\ mqtt_connected) =>
        /\ pc' = "handle"
        /\ IsRefresh(event')
        /\ UNCHANGED queue_vars
C9_RefreshNotQueued == [](C9_RefreshState) /\ [][C9_RefreshStep]_vars

\* C9 witness: an iteration that delivered a RefreshEvent has finished while
\* an event appended by the transport thread is pending
C9_Witness ==
    /\ pc = "interval"
    /\ ~check_ret
    /\ iter.refresh = 1
    /\ Len(event_queue) >= 1

\* C10: MQTTClient.publish never raises to its caller, returns True for an
\* accepting result code and False for every publish-level failure.
C10_PublishNeverThrows ==
    publish_call.outcome.kind # "none" =>
        /\ publish_call.exc = "none"
        /\ publish_call.ret =
             IF publish_call.outcome.kind = "rc" /\ publish_call.outcome.rc = 0
             THEN "True" ELSE "False"

\* the number of ConnectEvents appended so far
ConnectEventsEnqueued == Cardinality({i \in 1..Len(enq) : IsConnect(enq[i])})

\* C11: every on_connect invocation, whatever its result code and whether or
\* not the birth publish succeeds, enqueues exactly one ConnectEvent carrying
\* its flags and rc and sets the wake signal, and sets connected exactly when
\* rc == 0: once an invocation is past the construction of its event, as many
\* ConnectEvents were appended as on_connect was invoked; between the append
\* and the set the appended event carries the invocation's arguments; and
\* connected is true exactly if some invocation had rc == 0.
C11_OnConnectEnqueues ==
    /\ tpc # "append" => ConnectEventsEnqueued = nconnects
    /\ tpc = "set" =>
        \E i \in 1..Len(enq) :
            /\ IsConnect(enq[i])
            /\ enq[i].flags = targs.flags
            /\ enq[i].rc = targs.rc
    /\ connected <=>
        \/ \E i \in 1..Len(enq) : IsSuccess(enq[i])
        \/ targs.cb = "on_connect" /\ targs.rc = 0

\* a step of the transport thread inside on_disconnect
DisconnectStep ==
    /\ tpc' # tpc
    /\ targs.cb = "on_disconnect" \/ targs'.cb = "on_disconnect"

\* C12: on_disconnect, for any result code, leaves the pending events, the
\* wake signal and connected unchanged and enqueues nothing: no step of the
\* callback changes them, and as long as on_connect has not been called (so
\* that disconnects are all the transport has delivered) nothing is pending,
\* the signal is clear, connected is false and handle_event was never called.
C12_DisconnectFrame ==
    DisconnectStep => UNCHANGED <<event_queue, event_flag, connected, enq>>
C12_DisconnectAlone ==
    nconnects = 0 =>
        /\ event_queue = <<>>
        /\ enq = <<>>
        /\ ~event_flag
        /\ ~connected
        /\ ~check_ret
        /\ handled = <<>>
C12_DisconnectNoEffect == [](C12_DisconnectAlone) /\ [][C12_DisconnectFrame]_vars

\* C12 witness: on_disconnect(rc = 7) runs, no on_connect came before it, and
\* the scheduler's wait has elapsed with the signal clear
C12_Witness ==
    /\ tpc = "disconnect"
    /\ targs.rc = 7
    /\ nconnects = 0
    /\ pc = "nosignal"

\* C13: on every exit path of start() (connect timeout, SIGTERM at any point,
\* KeyboardInterrupt, ExitApp raised by the application, an exception from
\* setup, connect or handle_event) app.shutdown() is called exactly once and
\* then MQTTClient.shutdown() exactly once, in that order, before the process
\* exits: MQTTClient.shutdown() never runs before app.shutdown(), neither runs
\* twice, and a process that exits after start() began has run both.
C13_ShutdownOnEveryExit ==
    /\ mqtt_shutdowns <= app_shutdowns
    /\ app_shutdowns <= 1
    /\ (pc = "exited" /\ handler_installed) =>
        /\ app_shutdowns = 1
        /\ mqtt_shutdowns = 1

\* the exit code the cause of the exit calls for: 255 when the constructor
\* failed, 0 when a signal ended the try body, the application's rc for its
\* ExitApp, 255 for every other exception
ExpectedExit ==
    IF ~handler_installed THEN 255
    ELSE IF interrupted # "none" THEN 0
    ELSE IF exc = "ExitApp" THEN exc_rc
    ELSE 255

\* C14: the process exit code is determined by the exit cause: 0 for SIGTERM
\* or KeyboardInterrupt, the application's rc for ExitApp(rc), 255 for every
\* other exception and for a failing constructor.  Stated for the exits that
\* reach exit(rc), that is, with no exception raised inside an except clause
\* or the finally block.
C14_ExitCodeByCause ==
    (pc = "exited" /\ propagating = "none") => exit_code = ExpectedExit

\* C15: shutdown is idempotent: once MQTTClient.shutdown() has run, running it
\* again requests no further stop of the transport's network thread.
C15_ShutdownIdempotent ==
    mqtt_shutdowns >= 1 => MQTTClientShutdown(client, loop_stops) = loop_stops

\* the loop has ended: an exception left the try body of start()
LoopEnded == exc # "none"

\* C16: no enqueued event is lost.  An event appended by handle_event during a
\* drain or by the transport thread at any point is delivered in the drain in
\* progress or in the drain of the next wake: a pending event has seen at most
\* one check return True since it was appended, and if it has seen one, the
\* drain that check began is still in progress; the drain that ends with pop
\* returning None leaves no appended event undelivered.  Under fair scheduling
\* every appended event is eventually delivered to handle_event unless the
\* loop ends: at every moment, a moment follows (or is now) at which every
\* event appended so far has been delivered, or the loop has ended.
C16_PendingState ==
    /\ Len(waited) = Len(event_queue)
    /\ \A i \in 1..Len(waited) :
        /\ waited[i] <= 1
        /\ waited[i] = 1 => draining
C16_DrainEndStep ==
    (Leaves("pop") /\ pc' = "interval") =>
        Len(HandledFromQueue) = Len(enq)
C16_EventuallyDelivered ==
    []<>(Len(HandledFromQueue) = Len(enq) \/ LoopEnded)
C16_NoEventLost ==
    /\ [](C16_PendingState)
    /\ [][C16_DrainEndStep]_vars
    /\ C16_EventuallyDelivered

\* C16 witness: an event the handler constructed during a drain and a
\* ConnectEvent of the transport thread were both delivered, the first in the
\* drain in progress, and the loop is waiting again
C16_Witness ==
    /\ pc = "wait"
    /\ ~LoopEnded
    /\ Len(HandledFromQueue) = Len(enq)
    /\ \E i, j \in 1..Len(HandledFromQueue) :
        /\ ~IsConnect(HandledFromQueue[i])
        /\ IsConnect(HandledFromQueue[j])
        /\ i < j

\* C17: MQTTClient.connect registers the callbacks, then calls the transport's
\* connect, then starts the network thread, in that order: the transport's
\* connect is called only with the callbacks registered, at most once (no
\* retry), and the thread runs only after that call.  If the call raised, the
\* error has reached the caller (it is the exception that ended start()'s try
\* body), the thread was not started, no callback was delivered, no event was
\* ever appended, and the loop was never entered.
C17_ConnectOrder ==
    /\ transport_connects >= 1 => callbacks_set
    /\ transport_connects <= 1
    /\ loop_started => transport_connects = 1 /\ exc # "ConnectionFailed"
    /\ pc \in {"loop_start", "wait"} => transport_connects = 1
    /\ exc = "ConnectionFailed" =>
        /\ pc \in {"exit", "shutdown_app", "shutdown_mqtt", "exit_call", "exited"}
        /\ ~loop_started
        /\ nconnects = 0
        /\ enq = <<>>
        /\ event_queue = <<>>
        /\ ~event_flag
        /\ handled = <<>>
        /\ sleep_interval = "unset"
        /\ iter = NewIteration

\* C17 witness: the transport's connect raised and the process has exited with
\* 255 after one call of it
C17_Witness ==
    /\ exc = "ConnectionFailed"
    /\ pc = "exited"
    /\ exit_code = 255
    /\ transport_connects = 1
    /\ callbacks_set

\* positions of the scheduler after the check of the current iteration
AfterCheck ==
    {"clear", "nosignal", "pop", "pop0", "process", "handle", "handle_set",
     "publish_ret", "interval"}

\* C18: each iteration of _main_loop makes exactly one wait and then exactly
\* one check, and then takes exactly one of three branches.  If check returned
\* True it pops until pop returns None, delivers every event popped and
\* constructs no RefreshEvent; otherwise, if mqtt_connected, it delivers one
\* RefreshEvent and does not pop; otherwise it raises the timeout.  pop is
\* never called in an iteration whose check returned False.
C18_IterationShape ==
    /\ iter.waits <= 1
    /\ iter.checks <= iter.waits
    /\ pc = "check" => iter.waits = 1 /\ iter.checks = 0
    /\ pc \in AfterCheck => iter.waits = 1 /\ iter.checks = 1
    /\ iter.pops > 0 => check_ret /\ iter.checks = 1 /\ iter.refresh = 0
    /\ iter.refresh > 0 =>
        /\ iter.refresh = 1
        /\ ~check_ret
        /\ mqtt_connected
        /\ iter.pops = 0
        /\ iter.handled <= 1
    /\ pc = "interval" =>
        IF check_ret
        THEN /\ event = None
             /\ iter.pops >= 1
             /\ iter.handled = iter.pops - 1
             /\ iter.refresh = 0
        ELSE /\ iter.refresh = 1
             /\ iter.handled = 1
             /\ iter.pops = 0
    /\ exc = "ConnectTimeout" =>
        /\ ~check_ret
        /\ ~mqtt_connected
        /\ iter = [NewIteration EXCEPT !.waits = 1, !.checks = 1]

\* C18 witness: after an iteration that drained events, an iteration whose
\* check returned False has delivered its one RefreshEvent
C18_Witness ==
    /\ pc = "interval"
    /\ ~check_ret
    /\ iter.refresh = 1
    /\ Len(HandledFromQueue) >= 2

\* positions of the scheduler inside the while loop
InLoop == AfterCheck \cup {"wait", "check"}

\* C19: the scheduler starts with mqtt_connected false and its first wait uses
\* connect_timeout; every later wait uses the value get_refresh_interval()
\* returned at the end of the preceding iteration, whichever branch that
\* iteration took, also while the loop is still not connected.
C19_WaitInterval ==
    /\ (pc \in InLoop /\ ~iterated) => sleep_interval = "connect_timeout"
    /\ (pc \in InLoop /\ iterated) => sleep_interval = "refresh_interval"
    /\ (pc = "wait" /\ ~iterated) => ~mqtt_connected

\* C19 witness: the first wake was caused by a failed ConnectEvent; the loop,
\* still not connected, waits again, with the refresh interval
C19_Witness ==
    /\ pc = "wait"
    /\ iterated
    /\ ~mqtt_connected
    /\ sleep_interval = "refresh_interval"
    /\ Len(handled) >= 1
    /\ ~IsSuccess(handled[1].ev)

\* C20 as stated: the loop takes a no-event branch (the timeout or the
\* RefreshEvent) only when nothing is pending: whenever the scheduler is about
\* to take the branch, the pending event sequence is empty.
C20_BranchOnlyWhenEmpty == pc = "nosignal" => event_queue = <<>>

\* C20, amended: the loop takes a no-event branch only after the check of that
\* iteration found the signal clear, without popping.  When check tests a
\* clear signal, nothing is pending except at most one event whose constructor
\* has appended it and not yet set the signal; an event pending when the
\* branch is taken is that event or one appended after the test, so that its
\* constructor has set the signal since the test or is about to.
C20_NoEventBranch ==
    /\ (pc = "check" /\ ~event_flag) =>
        \/ event_queue = <<>>
        \/ Len(event_queue) = 1 /\ MidEnqueue
    /\ pc = "nosignal" =>
        /\ ~check_ret
        /\ iter.pops = 0
        /\ event_queue # <<>> => (MidEnqueue \/ event_flag)

\* C20 witness: the wait elapsed, check found the signal clear, and before the
\* loop raises the timeout on_connect(rc = 0) has appended its ConnectEvent
\* and set the signal
C20_Witness ==
    /\ pc = "nosignal"
    /\ ~mqtt_connected
    /\ tpc = "idle"
    /\ event_flag
    /\ Len(event_queue) = 1
    /\ IsSuccess(event_queue[1])

\* ---------------------------------------------------------------- C21
\* the successful ConnectEvents in a sequence of events
Successes(q) == SelectSeq(q, IsSuccess)

\* on_connect invocations with rc == 0 that are past the birth branch: those
\* whose event is enqueued, and the one between the branch and its append or
\* ended by the exception of its publish
SuccessfulCallbacks ==
    Len(Successes(enq))
        + (IF tpc \in {"append", "raised"} /\ targs.rc = 0 THEN 1 ELSE 0)

\* C21: on_connect publishes the birth message exactly once per successful
\* connect callback when a birth topic is configured, never on a failed
\* connect and never when none is configured, and issues the publish before
\* it enqueues the ConnectEvent of the callback: the publishes issued number
\* the successful callbacks when a birth message is set and zero when not,
\* and with a birth message set neither the queue's history nor handle_event
\* has seen more successful ConnectEvents than publishes were issued
C21_BirthOncePerSuccess ==
    /\ births = (IF birth_msg THEN SuccessfulCallbacks ELSE 0)
    /\ birth_msg => Len(Successes(enq)) <= births
    /\ birth_msg => Len(Successes(HandledFromQueue)) <= births

\* handle_event received the ConnectEvent of a successful connect that
\* followed a refused one, and one birth message was published
C21_Witness ==
    /\ birth_msg
    /\ births = 1
    /\ Len(enq) >= 2
    /\ ~IsSuccess(enq[1]) /\ IsConnect(enq[1])
    /\ Len(Successes(HandledFromQueue)) = 1

\* ---------------------------------------------------------------- C22
\* a step that writes mqtt_connected changes it from false to true, and is the
\* isinstance block run on a popped ConnectEvent with rc == 0
C22_SetOnlyBySuccess ==
    /\ mqtt_connected => mqtt_connected'
    /\ mqtt_connected' /\ ~mqtt_connected =>
        /\ pc = "process"
        /\ IsSuccess(event)
        /\ popped # <<>> /\ popped[Len(popped)] = event

\* a check that found the signal clear while mqtt_connected is true is followed
\* by handle_event(RefreshEvent()), not by the connect-timeout failure
C22_RefreshWhenConnected ==
    Leaves("nosignal") /\ mqtt_connected =>
        /\ pc' = "handle"
        /\ IsRefresh(event')
        /\ exc' = "none"

\* mqtt_connected is false until the loop has popped a successful ConnectEvent,
\* and the connect-timeout failure is raised only with mqtt_connected false
C22_FalseUntilSuccess ==
    /\ Len(Successes(popped)) = 0 => ~mqtt_connected
    /\ (pc = "wait" /\ ~iterated /\ iter.waits = 0) => ~mqtt_connected
    /\ exc = "ConnectTimeout" => ~mqtt_connected /\ Len(Successes(popped)) = 0

\* C22: the scheduler's mqtt_connected flag is monotonic: it is false at loop
\* entry, becomes true only when a ConnectEvent with rc == 0 is popped, and
\* once true never becomes false again whatever connect, failed-connect and
\* disconnect callbacks follow; so once a successful ConnectEvent has been
\* processed the loop never raises the connect-timeout failure, and every
\* wait that ends with the signal clear at the check produces a RefreshEvent,
\* also after on_disconnect has run
C22_ConnectedMonotonic ==
    /\ []C22_FalseUntilSuccess
    /\ [][C22_SetOnlyBySuccess /\ C22_RefreshWhenConnected]_vars

\* C22 witness: a successful ConnectEvent and then a refused one were
\* processed, the wait elapsed with the signal clear, and the loop delivers a
\* RefreshEvent while on_disconnect runs
C22_Witness ==
    /\ mqtt_connected
    /\ Len(popped) = 2
    /\ IsSuccess(popped[1])
    /\ IsConnect(popped[2]) /\ popped[2].rc > 0
    /\ pc = "handle"
    /\ IsRefresh(event)
    /\ tpc = "disconnect"

\* ---------------------------------------------------------------- C23
\* a step that writes MQTTClient.connected is on_connect entered with
\* rc == 0, and it writes true
C23_WrittenByOnConnect ==
    /\ connected' # connected =>
        /\ tpc = "idle"
        /\ targs'.cb = "on_connect"
        /\ targs'.rc = 0
    /\ connected => connected'

\* connected is true from the rc test of a successful on_connect on: while
\* the callback is between the test and its append, once its ConnectEvent is
\* enqueued, and whenever the scheduler's mqtt_connected is true
C23_SetBeforeEnqueue ==
    /\ tpc \in {"append", "raised"} /\ targs.rc = 0 => connected
    /\ Len(Successes(enq)) > 0 => connected
    /\ mqtt_connected => connected

\* C23: in every reachable state the scheduler's mqtt_connected being true
\* implies MQTTClient.connected is true: the wrapper flag is written only by
\* on_connect on the transport thread, is set before the successful
\* ConnectEvent is enqueued, and is never reset to false by on_disconnect, a
\* failed connect or shutdown
C23_ConnectedImplied ==
    /\ []C23_SetBeforeEnqueue
    /\ [][C23_WrittenByOnConnect]_vars

\* C23 witness: after a successful connect was processed a refused connect
\* was enqueued and MQTTClient.shutdown() has run; both flags are true
C23_Witness ==
    /\ mqtt_connected
    /\ connected
    /\ mqtt_shutdowns = 1
    /\ Len(enq) = 2
    /\ IsSuccess(enq[1])
    /\ IsConnect(enq[2]) /\ enq[2].rc > 0

====
